---- MODULE Spec2Model ----
(***************************************************************************)
(* Client-side session lifecycle manager of learn_path                     *)
(* (frontend/src/utils/sessionManager.ts): the SessionManager singleton,   *)
(* its self-rescheduling expiration timer, the document-level activity     *)
(* throttle and the axios interceptors that renew the session.             *)
(*                                                                         *)
(* Time is wall-clock milliseconds (Date.now()).  localStorage holds text; *)
(* the text under the session key is modelled as a tagged document and     *)
(* JSON.parse / JSON.stringify convert between text and JavaScript values. *)
(***************************************************************************)
EXTENDS Integers, Sequences, FiniteSets, TLC

VARIABLES
    now,               \* Date.now(): the wall clock, in ms
    store,             \* localStorage['learnpath_session'] (text, or no key)
    activityTimer,     \* SessionManager.activityTimer: a timeout handle, 0 = null
    timers,            \* the event loop's pending timeouts: records [id, due]
    onSessionExpired,  \* SessionManager.onSessionExpired: a callback, 0 = null
    expiredCalls,      \* number of invocations of each host callback
    lastActivityTime,  \* the document listener's throttle stamp
    inflight,          \* API requests sent and not yet answered
    reached,           \* history: when updateActivity() was last called and returned, per origin
    script,            \* position of the scripted scenario (0 outside it)
    last               \* the latest step: [op, pre, arg, ret, threw]

vars == <<now, store, activityTimer, timers, onSessionExpired, expiredCalls,
          lastActivityTime, inflight, reached, script, last>>

---------------------------------------------------------------------------
(* Program constants *)

TIMEOUT_DURATION == 900000
CHECK_INTERVAL == 60000
throttleDelay == 30000
MS_PER_MINUTE == 60000

(* Bounds of the model *)

\* between handlers the clock advances to the next multiple of CoarseStep
\* (of FineStep where the activity throttle is studied), or by one millisecond
CoarseStep == 180000
FineStep == 30000
\* the one-millisecond steps stop MaxJitter ms after a multiple of FineStep
MaxJitter == 1
\* the clock stops here
MaxTime == 1260000
\* the clock of the activity-tracker specification stops here
FineMaxTime == 120000
\* API requests in flight at once
MaxInflight == 2
\* the scripted scenario advances the clock by at most this much at a time
ScenarioStep == 10000
\* an idle page's clock advances by this much when no timeout is pending
IdleStep == 300000
\* the clock of the idle page stops here
IdleMaxTime == 1080000
\* the clock of the page under continuous interaction stops here
KeepAliveMaxTime == 960000

\* user payloads handed to saveSession: a truthy one and a falsy one ('')
Users == {"alice", ""}
\* host callbacks handed to setOnSessionExpired
Callbacks == {1, 2}

---------------------------------------------------------------------------
(* JavaScript values and the text in the store *)

Null == [type |-> "null"]
Undefined == [type |-> "undefined"]
Bool(b) == [type |-> "boolean", val |-> b]
Num(n) == [type |-> "number", num |-> n]
NaN == [type |-> "NaN"]
Str(s) == [type |-> "string", str |-> s]
Obj(f) == [type |-> "object", fields |-> f]

\* localStorage.getItem gives null for a missing key
NoItem == [kind |-> "missing"]
\* the empty string, stored as it is
EmptyText == [kind |-> "empty"]
\* a non-empty text that is not JSON
GarbageText == [kind |-> "garbage"]
\* a JSON text, with the value it denotes
JsonText(v) == [kind |-> "json", value |-> v]

\* JSON.stringify of a session object: a JSON text denoting the object
JSONstringify(v) == JsonText(v)

\* JSON.parse: [threw, value]; the empty text and non-JSON text raise SyntaxError
JSONparse(text) ==
    IF text.kind = "json"
    THEN [threw |-> FALSE, value |-> text.value]
    ELSE [threw |-> TRUE, value |-> Undefined]

\* obj.k for a parsed value: a field of an object, undefined otherwise
HasField(v, k) == v.type = "object" /\ k \in DOMAIN v.fields

\* SessionData built by saveSession
SessionData(user, loginTime, lastActivity, expiresAt) ==
    Obj([user |-> user, loginTime |-> loginTime,
         lastActivity |-> lastActivity, expiresAt |-> expiresAt])

\* a complete record: all four fields
IsRecord(v) ==
    v.type = "object" /\ DOMAIN v.fields = {"user", "loginTime", "lastActivity", "expiresAt"}

StoredRecord(text) == text.kind = "json" /\ IsRecord(text.value)

---------------------------------------------------------------------------
(* The manager's mutable state as one value: [store, activityTimer, timers] *)

Cur == [store |-> store, activityTimer |-> activityTimer, timers |-> timers]

Commit(m) ==
    /\ store' = m.store
    /\ activityTimer' = m.activityTimer
    /\ timers' = m.timers

\* setTimeout returns a handle no pending timeout uses
FreshId(m) == CHOOSE i \in 1..(Cardinality(m.timers) + 1) : \A tm \in m.timers : tm.id # i

\* stopActivityTimer() that forgets the handle without clearTimeout
stopActivityTimer_leavesTimeout(m) == [m EXCEPT !.activityTimer = 0]

\* private stopActivityTimer(): clearTimeout on the held handle, then null
stopActivityTimer(m) ==
    IF m.activityTimer # 0
    THEN [m EXCEPT !.timers = {tm \in m.timers : tm.id # m.activityTimer},
                   !.activityTimer = 0]
    ELSE m

\* clearSession() that removes the key and leaves the timer running
clearSession_keepsTimer(m) == [m EXCEPT !.store = NoItem]

\* clearSession(): remove the key, stop the timer
clearSession(m) == stopActivityTimer([m EXCEPT !.store = NoItem])

\* startActivityTimer() that schedules without cancelling the pending timeout
startActivityTimer_noStop(m, t) ==
    LET id == FreshId(m)
    IN  [m EXCEPT !.timers = m.timers \cup {[id |-> id, due |-> t + CHECK_INTERVAL]},
                  !.activityTimer = id]

\* startActivityTimer() that calls stopActivityTimer() after setTimeout: the
\* new timeout is cancelled and an older one is left pending
startActivityTimer_stopAfter(m, t) ==
    LET id == FreshId(m)
    IN  stopActivityTimer(
            [m EXCEPT !.timers = m.timers \cup {[id |-> id, due |-> t + CHECK_INTERVAL]},
                      !.activityTimer = id])

\* the scheduling half of startActivityTimer(): stop, then setTimeout(..., 60000)
startActivityTimer(m, t) ==
    LET s == stopActivityTimer(m)
        id == FreshId(s)
    IN  [s EXCEPT !.timers = s.timers \cup {[id |-> id, due |-> t + CHECK_INTERVAL]},
                  !.activityTimer = id]

\* the expiry test written with >= : the deadline instant counts as expired
ExpiredAt_inclusive(v, t) == HasField(v, "expiresAt") /\ t >= v.fields.expiresAt

\* the test `now > sessionData.expiresAt`; a comparison with undefined is false
ExpiredAt(v, t) == HasField(v, "expiresAt") /\ t > v.fields.expiresAt

\* getSession() whose catch block returns null without clearSession()
getSession_noPurgeOnError(m, t) ==
    IF m.store.kind \in {"missing", "empty"}
    THEN [m |-> m, ret |-> Null]
    ELSE LET p == JSONparse(m.store) IN
         IF p.threw \/ p.value.type = "null"
         THEN [m |-> m, ret |-> Null]
         ELSE IF ExpiredAt(p.value, t)
              THEN [m |-> clearSession(m), ret |-> Null]
              ELSE [m |-> m, ret |-> p.value]

\* getSession() that slides the deadline of a valid record on every read
getSession_touch(m, t) ==
    IF m.store.kind \in {"missing", "empty"}
    THEN [m |-> m, ret |-> Null]
    ELSE LET p == JSONparse(m.store) IN
         IF p.threw \/ p.value.type = "null"
         THEN [m |-> clearSession(m), ret |-> Null]
         ELSE IF ExpiredAt(p.value, t)
              THEN [m |-> clearSession(m), ret |-> Null]
              ELSE IF IsRecord(p.value)
                   THEN LET v == Obj([p.value.fields EXCEPT !.expiresAt = t + TIMEOUT_DURATION])
                        IN [m |-> [m EXCEPT !.store = JSONstringify(v)], ret |-> v]
                   ELSE [m |-> m, ret |-> p.value]

\* getSession(): [m, ret]; t is the Date.now() it reads
getSession(m, t) ==
    IF m.store.kind \in {"missing", "empty"}
    THEN [m |-> m, ret |-> Null]
    ELSE LET p == JSONparse(m.store) IN
         IF p.threw \/ p.value.type = "null"
         THEN [m |-> clearSession(m), ret |-> Null]
         ELSE IF ExpiredAt(p.value, t)
              THEN [m |-> clearSession(m), ret |-> Null]
              ELSE [m |-> m, ret |-> p.value]

\* saveSession(user): [m]; t is the Date.now() it reads
saveSession(m, user, t) ==
    startActivityTimer(
        [m EXCEPT !.store = JSONstringify(SessionData(user, t, t, t + TIMEOUT_DURATION))],
        t)

\* updateActivity() that bumps lastActivity and leaves expiresAt as it was
updateActivity_staleDeadline(m, t1, t2) ==
    LET g == getSession(m, t1) IN
    IF g.ret = Null
    THEN [m |-> g.m, threw |-> FALSE]
    ELSE IF g.ret.type # "object"
         THEN [m |-> g.m, threw |-> TRUE]
         ELSE LET f == g.ret.fields
                  upd == [k \in DOMAIN f \cup {"lastActivity"} |->
                            IF k = "lastActivity" THEN t2 ELSE f[k]]
              IN [m |-> startActivityTimer([g.m EXCEPT !.store = JSONstringify(Obj(upd))], t2),
                  threw |-> FALSE]

\* updateActivity() that assigns loginTime where it should assign lastActivity
updateActivity_wrongField(m, t1, t2) ==
    LET g == getSession(m, t1) IN
    IF g.ret = Null
    THEN [m |-> g.m, threw |-> FALSE]
    ELSE IF g.ret.type # "object"
         THEN [m |-> g.m, threw |-> TRUE]
         ELSE LET f == g.ret.fields
                  upd == [k \in DOMAIN f \cup {"loginTime", "expiresAt"} |->
                            IF k = "loginTime" THEN t2
                            ELSE IF k = "expiresAt" THEN t2 + TIMEOUT_DURATION
                            ELSE f[k]]
              IN [m |-> startActivityTimer([g.m EXCEPT !.store = JSONstringify(Obj(upd))], t2),
                  threw |-> FALSE]

\* updateActivity() that rewrites the record and leaves the scheduler alone
updateActivity_noRestart(m, t1, t2) ==
    LET g == getSession(m, t1) IN
    IF g.ret = Null
    THEN [m |-> g.m, threw |-> FALSE]
    ELSE IF g.ret.type # "object"
         THEN [m |-> g.m, threw |-> TRUE]
         ELSE LET f == g.ret.fields
                  upd == [k \in DOMAIN f \cup {"lastActivity", "expiresAt"} |->
                            IF k = "lastActivity" THEN t2
                            ELSE IF k = "expiresAt" THEN t2 + TIMEOUT_DURATION
                            ELSE f[k]]
              IN [m |-> [g.m EXCEPT !.store = JSONstringify(Obj(upd))],
                  threw |-> FALSE]

\* updateActivity() that opens a session when it finds none
updateActivity_createsRecord(m, t1, t2) ==
    LET g == getSession(m, t1) IN
    IF g.ret = Null
    THEN [m |-> saveSession(g.m, "", t2), threw |-> FALSE]
    ELSE IF g.ret.type # "object"
         THEN [m |-> g.m, threw |-> TRUE]
         ELSE LET f == g.ret.fields
                  upd == [k \in DOMAIN f \cup {"lastActivity", "expiresAt"} |->
                            IF k = "lastActivity" THEN t2
                            ELSE IF k = "expiresAt" THEN t2 + TIMEOUT_DURATION
                            ELSE f[k]]
              IN [m |-> startActivityTimer([g.m EXCEPT !.store = JSONstringify(Obj(upd))], t2),
                  threw |-> FALSE]

\* updateActivity() that extends from the old deadline instead of from now
updateActivity_fromDeadline(m, t1, t2) ==
    LET g == getSession(m, t1) IN
    IF g.ret = Null
    THEN [m |-> g.m, threw |-> FALSE]
    ELSE IF g.ret.type # "object"
         THEN [m |-> g.m, threw |-> TRUE]
         ELSE LET f == g.ret.fields
                  upd == [k \in DOMAIN f \cup {"lastActivity", "expiresAt"} |->
                            IF k = "lastActivity" THEN t2
                            ELSE IF k = "expiresAt"
                                 THEN IF HasField(g.ret, "expiresAt")
                                      THEN f.expiresAt + CHECK_INTERVAL
                                      ELSE t2 + TIMEOUT_DURATION
                            ELSE f[k]]
              IN [m |-> startActivityTimer([g.m EXCEPT !.store = JSONstringify(Obj(upd))], t2),
                  threw |-> FALSE]

\* updateActivity() that reads the stored record without the expiry test
updateActivity_resurrects(m, t1, t2) ==
    IF ~StoredRecord(m.store)
    THEN updateActivity_noRestart(m, t1, t2)
    ELSE LET f == m.store.value.fields
             upd == [f EXCEPT !.lastActivity = t2, !.expiresAt = t2 + TIMEOUT_DURATION]
         IN [m |-> startActivityTimer([m EXCEPT !.store = JSONstringify(Obj(upd))], t2),
             threw |-> FALSE]

\* updateActivity(): [m, threw]; t1 is read by getSession, t2 by updateActivity.
\* Assigning a property of a primitive raises TypeError in module (strict) code.
updateActivity(m, t1, t2) ==
    LET g == getSession(m, t1) IN
    IF g.ret = Null
    THEN [m |-> g.m, threw |-> FALSE]
    ELSE IF g.ret.type # "object"
         THEN [m |-> g.m, threw |-> TRUE]
         ELSE LET f == g.ret.fields
                  upd == [k \in DOMAIN f \cup {"lastActivity", "expiresAt"} |->
                            IF k = "lastActivity" THEN t2
                            ELSE IF k = "expiresAt" THEN t2 + TIMEOUT_DURATION
                            ELSE f[k]]
              IN [m |-> startActivityTimer([g.m EXCEPT !.store = JSONstringify(Obj(upd))], t2),
                  threw |-> FALSE]

\* the host's expiry handler (handleLogout): it calls clearSession() itself
hostOnExpired(m) == clearSession(m)

\* a timer function that checks once and never schedules the next check
timerCallback_oneShot(m, cb, t1, t2) ==
    LET g == getSession(m, t1) IN
    IF g.ret = Null
    THEN [m |-> g.m, fired |-> 0]
    ELSE IF ExpiredAt(g.ret, t2)
         THEN IF cb # 0
              THEN [m |-> hostOnExpired(clearSession(g.m)), fired |-> cb]
              ELSE [m |-> clearSession(g.m), fired |-> 0]
         ELSE [m |-> g.m, fired |-> 0]

\* a timer function that schedules the next check even when it finds no session
timerCallback_rescheduleAlways(m, cb, t1, t2) ==
    LET g == getSession(m, t1) IN
    IF g.ret = Null
    THEN [m |-> startActivityTimer(g.m, t2), fired |-> 0]
    ELSE IF ExpiredAt(g.ret, t2)
         THEN IF cb # 0
              THEN [m |-> hostOnExpired(clearSession(g.m)), fired |-> cb]
              ELSE [m |-> clearSession(g.m), fired |-> 0]
         ELSE [m |-> startActivityTimer(g.m, t2), fired |-> 0]

\* a timer function that notifies of the expiry and goes on polling, the
\* record left in the store
timerCallback_notifyNoClear(m, cb, t1, t2) ==
    LET g == getSession(m, t1) IN
    IF g.ret = Null
    THEN [m |-> g.m, fired |-> 0]
    ELSE IF ExpiredAt(g.ret, t2)
         THEN [m |-> startActivityTimer(g.m, t2), fired |-> cb]
         ELSE [m |-> startActivityTimer(g.m, t2), fired |-> 0]

\* the function startActivityTimer hands to setTimeout: [m, fired];
\* m has the fired timeout removed, cb is this.onSessionExpired,
\* t1 is read by getSession, t2 by the callback; fired is the callback invoked
timerCallback(m, cb, t1, t2) ==
    LET g == getSession(m, t1) IN
    IF g.ret = Null
    THEN [m |-> g.m, fired |-> 0]
    ELSE IF ExpiredAt(g.ret, t2)
         THEN IF cb # 0
              THEN [m |-> hostOnExpired(clearSession(g.m)), fired |-> cb]
              ELSE [m |-> clearSession(g.m), fired |-> 0]
         ELSE [m |-> startActivityTimer(g.m, t2), fired |-> 0]

\* isLoggedIn(): [m, ret]
isLoggedIn(m, t) ==
    LET g == getSession(m, t) IN [m |-> g.m, ret |-> Bool(g.ret # Null)]

\* a JavaScript string is truthy unless empty
Truthy(user) == user # ""

\* getCurrentUser(): [m, ret]; `session?.user || null`
getCurrentUser(m, t) ==
    LET g == getSession(m, t) IN
    [m |-> g.m,
     ret |-> IF HasField(g.ret, "user") /\ Truthy(g.ret.fields.user)
             THEN Str(g.ret.fields.user)
             ELSE Null]

\* getTimeRemaining() that rounds the minutes up
getTimeRemaining_roundsUp(m, t1, t2) ==
    LET g == getSession(m, t1) IN
    [m |-> g.m,
     ret |-> IF g.ret = Null THEN Num(0)
             ELSE IF ~HasField(g.ret, "expiresAt") THEN NaN
             ELSE LET remaining == g.ret.fields.expiresAt - t2
                      minutes == (remaining + MS_PER_MINUTE - 1) \div MS_PER_MINUTE
                  IN Num(IF minutes > 0 THEN minutes ELSE 0)]

\* getTimeRemaining(): [m, ret]; t1 is read by getSession, t2 by getTimeRemaining
getTimeRemaining(m, t1, t2) ==
    LET g == getSession(m, t1) IN
    [m |-> g.m,
     ret |-> IF g.ret = Null THEN Num(0)
             ELSE IF ~HasField(g.ret, "expiresAt") THEN NaN
             ELSE LET remaining == g.ret.fields.expiresAt - t2
                      minutes == remaining \div MS_PER_MINUTE
                  IN Num(IF minutes > 0 THEN minutes ELSE 0)]

---------------------------------------------------------------------------
(* The clock *)

\* what a later Date.now() of the same handler may add to an earlier one
\* the clock has gone less than MaxJitter ms past a multiple of a step
NearStep(t) == (t % FineStep) < MaxJitter \/ (t % CoarseStep) < MaxJitter

Drifts == {d \in 0..1 : d = 0 \/ NearStep(now)}

\* the record of a call: the text it found under the session key, its argument,
\* its return value and whether it raised
Called(op, arg, ret, threw) ==
    last' = [op |-> op, pre |-> store, arg |-> arg, ret |-> ret, threw |-> threw]

\* the record of a step that is no call
Passed(op) ==
    last' = [op |-> op, pre |-> NoItem, arg |-> Undefined, ret |-> Undefined, threw |-> FALSE]

\* time passes between handlers
Advance ==
    /\ \E d \in {1, CoarseStep - (now % CoarseStep)} :
          /\ d = 1 => NearStep(now)
          /\ now + d <= MaxTime
          /\ now' = now + d
    /\ Passed("advance")
    /\ UNCHANGED <<store, activityTimer, timers, onSessionExpired, expiredCalls,
                   lastActivityTime, inflight, reached, script>>

---------------------------------------------------------------------------
(* The manager's operations, as the host calls them *)

SaveSession ==
    /\ \E user \in Users :
          Commit(saveSession(Cur, user, now)) /\ Called("saveSession", Str(user), Undefined, FALSE)
    /\ UNCHANGED <<now, onSessionExpired, expiredCalls, lastActivityTime, inflight,
                   reached, script>>

GetSession ==
    /\ LET g == getSession(Cur, now) IN
          Commit(g.m) /\ Called("getSession", Undefined, g.ret, FALSE)
    /\ UNCHANGED <<now, onSessionExpired, expiredCalls, lastActivityTime, inflight,
                   reached, script>>

UpdateActivity ==
    /\ \E d \in Drifts :
          LET u == updateActivity(Cur, now, now + d) IN
          Commit(u.m) /\ Called("updateActivity", Undefined, Undefined, u.threw) /\ now' = now + d
    /\ UNCHANGED <<onSessionExpired, expiredCalls, lastActivityTime, inflight,
                   reached, script>>

\* extendSession(): this.updateActivity()
ExtendSession ==
    /\ \E d \in Drifts :
          LET u == updateActivity(Cur, now, now + d) IN
          Commit(u.m) /\ Called("extendSession", Undefined, Undefined, u.threw) /\ now' = now + d
    /\ UNCHANGED <<onSessionExpired, expiredCalls, lastActivityTime, inflight,
                   reached, script>>

ClearSession ==
    /\ Commit(clearSession(Cur))
    /\ Called("clearSession", Undefined, Undefined, FALSE)
    /\ UNCHANGED <<now, onSessionExpired, expiredCalls, lastActivityTime, inflight,
                   reached, script>>

IsLoggedIn ==
    /\ LET r == isLoggedIn(Cur, now) IN
          Commit(r.m) /\ Called("isLoggedIn", Undefined, r.ret, FALSE)
    /\ UNCHANGED <<now, onSessionExpired, expiredCalls, lastActivityTime, inflight,
                   reached, script>>

GetCurrentUser ==
    /\ LET r == getCurrentUser(Cur, now) IN
          Commit(r.m) /\ Called("getCurrentUser", Undefined, r.ret, FALSE)
    /\ UNCHANGED <<now, onSessionExpired, expiredCalls, lastActivityTime, inflight,
                   reached, script>>

GetTimeRemaining ==
    /\ \E d \in Drifts :
          LET r == getTimeRemaining(Cur, now, now + d) IN
          Commit(r.m) /\ Called("getTimeRemaining", Undefined, r.ret, FALSE) /\ now' = now + d
    /\ UNCHANGED <<onSessionExpired, expiredCalls, lastActivityTime, inflight,
                   reached, script>>

SetOnSessionExpired ==
    /\ \E cb \in Callbacks :
          onSessionExpired' = cb /\ Called("setOnSessionExpired", Num(cb), Undefined, FALSE)
    /\ UNCHANGED <<now, store, activityTimer, timers, expiredCalls, lastActivityTime,
                   inflight, reached, script>>

\* a pending timeout whose delay has elapsed fires: it leaves the event loop's
\* queue and its function runs to completion
Tick ==
    /\ \E tm \in timers : \E d \in Drifts :
          /\ tm.due <= now
          /\ LET r == timerCallback([Cur EXCEPT !.timers = timers \ {tm}],
                                    onSessionExpired, now, now + d)
             IN /\ Commit(r.m)
                /\ expiredCalls' = IF r.fired # 0
                                   THEN [expiredCalls EXCEPT ![r.fired] = @ + 1]
                                   ELSE expiredCalls
                /\ Called("tick", Undefined, Num(r.fired), FALSE)
          /\ now' = now + d
    /\ UNCHANGED <<onSessionExpired, lastActivityTime, inflight, reached, script>>

\* texts another writer may leave under the session key: the empty string,
\* non-JSON text, JSON null, a bare number, objects lacking fields
CorruptTexts ==
    {EmptyText, GarbageText, JsonText(Null), JsonText(Num(42)),
     JsonText(Obj([user |-> "alice"])),
     JsonText(Obj([user |-> "alice", loginTime |-> 0, lastActivity |-> 0]))}

\* the value under the session key is overwritten from outside the manager
ExternalWrite ==
    /\ \E text \in CorruptTexts : store' = text
    /\ Passed("externalWrite")
    /\ UNCHANGED <<now, activityTimer, timers, onSessionExpired, expiredCalls,
                   lastActivityTime, inflight, reached, script>>

---------------------------------------------------------------------------

Init ==
    /\ now = 0
    /\ store = NoItem
    /\ activityTimer = 0
    /\ timers = {}
    /\ onSessionExpired = 0
    /\ expiredCalls = [cb \in Callbacks |-> 0]
    /\ lastActivityTime = 0
    /\ inflight = 0
    /\ reached = [dom |-> -1, api |-> -1]
    /\ script = 0
    /\ last = [op |-> "init", pre |-> NoItem, arg |-> Undefined, ret |-> Undefined, threw |-> FALSE]

Next ==
    \/ Advance
    \/ SaveSession
    \/ GetSession
    \/ UpdateActivity
    \/ ExtendSession
    \/ ClearSession
    \/ IsLoggedIn
    \/ GetCurrentUser
    \/ GetTimeRemaining
    \/ SetOnSessionExpired
    \/ Tick

Spec == Init /\ [][Next]_vars

\* the manager with a store that other writers can corrupt
CorruptNext == Next \/ ExternalWrite

CorruptSpec == Init /\ [][CorruptNext]_vars

---------------------------------------------------------------------------
(* The activity tracker: the document listener and the axios interceptors *)

\* trackActivity() that does nothing
trackActivity_dropped(m, t1, t2) == [m |-> m, threw |-> FALSE]

\* trackActivity(): sessionManager.updateActivity()
trackActivity(m, t1, t2) == updateActivity(m, t1, t2)

\* the throttle test written with >= : a signal exactly 30 s later passes
throttleOpen_inclusive(t, stamp) == t - stamp >= throttleDelay

\* the throttle test of handleActivity; t is the Date.now() it reads
throttleOpen(t, stamp) == t - stamp > throttleDelay

\* handleActivity that stamps lastActivityTime and forwards nothing
handleActivity_neverForwards(m, stamp, t0, t1, t2) ==
    IF throttleOpen(t0, stamp)
    THEN [m |-> m, stamp |-> t0, forwarded |-> TRUE, threw |-> FALSE]
    ELSE [m |-> m, stamp |-> stamp, forwarded |-> FALSE, threw |-> FALSE]

\* handleActivity that forwards without stamping lastActivityTime
handleActivity_noStamp(m, stamp, t0, t1, t2) ==
    IF throttleOpen(t0, stamp)
    THEN LET u == trackActivity(m, t1, t2) IN
         [m |-> u.m, stamp |-> stamp, forwarded |-> TRUE, threw |-> u.threw]
    ELSE [m |-> m, stamp |-> stamp, forwarded |-> FALSE, threw |-> FALSE]

\* handleActivity, the listener of mousedown, mousemove, keypress, scroll,
\* touchstart and click: [m, stamp, forwarded]; t0 is read by handleActivity,
\* t1 and t2 by updateActivity; a throw leaves the stamp as it was
handleActivity(m, stamp, t0, t1, t2) ==
    IF throttleOpen(t0, stamp)
    THEN LET u == trackActivity(m, t1, t2) IN
         [m |-> u.m, stamp |-> IF u.threw THEN stamp ELSE t0,
          forwarded |-> TRUE, threw |-> u.threw]
    ELSE [m |-> m, stamp |-> stamp, forwarded |-> FALSE, threw |-> FALSE]

HandleActivity ==
    /\ \E d \in Drifts :
          LET h == handleActivity(Cur, lastActivityTime, now, now, now + d) IN
          /\ Commit(h.m)
          /\ lastActivityTime' = h.stamp
          /\ reached' = IF h.forwarded /\ ~h.threw THEN [reached EXCEPT !.dom = now] ELSE reached
          /\ Called("handleActivity", Undefined, Bool(h.forwarded), h.threw)
          /\ now' = now + d
    /\ UNCHANGED <<onSessionExpired, expiredCalls, inflight, script>>

\* the request interceptor: trackActivity(), then the request leaves
ApiRequest ==
    /\ inflight < MaxInflight
    /\ \E d \in Drifts :
          LET u == trackActivity(Cur, now, now + d) IN
          Commit(u.m) /\ Called("apiRequest", Undefined, Undefined, u.threw) /\ now' = now + d
    /\ inflight' = inflight + 1
    /\ reached' = [reached EXCEPT !.api = now]
    /\ UNCHANGED <<onSessionExpired, expiredCalls, lastActivityTime, script>>

\* the response interceptor on a successful response: trackActivity()
ApiResponse ==
    /\ inflight > 0
    /\ \E d \in Drifts :
          LET u == trackActivity(Cur, now, now + d) IN
          Commit(u.m) /\ Called("apiResponse", Undefined, Undefined, u.threw) /\ now' = now + d
    /\ inflight' = inflight - 1
    /\ reached' = [reached EXCEPT !.api = now]
    /\ UNCHANGED <<onSessionExpired, expiredCalls, lastActivityTime, script>>

\* time passes between handlers, in steps of the throttle's scale
AdvanceFine ==
    /\ \E d \in {1, FineStep - (now % FineStep)} :
          /\ d = 1 => NearStep(now)
          /\ now + d <= FineMaxTime
          /\ now' = now + d
    /\ Passed("advance")
    /\ UNCHANGED <<store, activityTimer, timers, onSessionExpired, expiredCalls,
                   lastActivityTime, inflight, reached, script>>

TrackerNext ==
    \/ AdvanceFine
    \/ SaveSession
    \/ ClearSession
    \/ Tick
    \/ HandleActivity
    \/ ApiRequest
    \/ ApiResponse
    \/ ExternalWrite

TrackerSpec == Init /\ [][TrackerNext]_vars

---------------------------------------------------------------------------
(* The scenario of the specification: login at t=0, activity at t=500000, a
   read at t=1450000, with the timeouts firing as soon as they are due.
   script: 1 start, 2 callback registered, 3 logged in, 4 renewed, 5 read *)

ScenarioTimes == <<0, 500000, 1450000>>
ScenarioEnd == ScenarioTimes[3] + 2 * CHECK_INTERVAL

Min(S) == CHOOSE x \in S : \A y \in S : x <= y

ScenarioInit ==
    /\ now = ScenarioTimes[1]
    /\ store = NoItem
    /\ activityTimer = 0
    /\ timers = {}
    /\ onSessionExpired = 0
    /\ expiredCalls = [cb \in Callbacks |-> 0]
    /\ lastActivityTime = 0
    /\ inflight = 0
    /\ reached = [dom |-> -1, api |-> -1]
    /\ script = 1
    /\ last = [op |-> "init", pre |-> NoItem, arg |-> Undefined, ret |-> Undefined, threw |-> FALSE]

ScenarioRegister ==
    /\ script = 1
    /\ onSessionExpired' = 1
    /\ script' = 2
    /\ Called("setOnSessionExpired", Num(1), Undefined, FALSE)
    /\ UNCHANGED <<now, store, activityTimer, timers, expiredCalls, lastActivityTime,
                   inflight, reached>>

ScenarioLogin ==
    /\ script = 2
    /\ Commit(saveSession(Cur, "alice", now))
    /\ script' = 3
    /\ Called("saveSession", Str("alice"), Undefined, FALSE)
    /\ UNCHANGED <<now, onSessionExpired, expiredCalls, lastActivityTime, inflight, reached>>

ScenarioActivity ==
    /\ script = 3
    /\ now = ScenarioTimes[2]
    /\ LET u == updateActivity(Cur, now, now) IN
          Commit(u.m) /\ Called("updateActivity", Undefined, Undefined, u.threw)
    /\ script' = 4
    /\ UNCHANGED <<now, onSessionExpired, expiredCalls, lastActivityTime, inflight, reached>>

ScenarioRead ==
    /\ script = 4
    /\ now = ScenarioTimes[3]
    /\ LET g == getSession(Cur, now) IN
          Commit(g.m) /\ Called("getSession", Undefined, g.ret, FALSE)
    /\ script' = 5
    /\ UNCHANGED <<now, onSessionExpired, expiredCalls, lastActivityTime, inflight, reached>>

\* time passes up to the next timeout due, the next scripted call or the end
ScenarioAdvance ==
    /\ script \in 3..5
    /\ \A tm \in timers : tm.due > now
    /\ LET target == IF script = 3 THEN ScenarioTimes[2]
                     ELSE IF script = 4 THEN ScenarioTimes[3]
                     ELSE ScenarioEnd
       IN /\ now < target
          /\ now' = Min({now + ScenarioStep, target} \cup {tm.due : tm \in timers})
    /\ Passed("advance")
    /\ UNCHANGED <<store, activityTimer, timers, onSessionExpired, expiredCalls,
                   lastActivityTime, inflight, reached, script>>

ScenarioNext ==
    \/ ScenarioRegister
    \/ ScenarioLogin
    \/ ScenarioActivity
    \/ ScenarioRead
    \/ ScenarioAdvance
    \/ Tick

ScenarioSpec == ScenarioInit /\ [][ScenarioNext]_vars

---------------------------------------------------------------------------
(* The idle page: logins and renewals, no reads, no logout; every timeout
   fires at the instant it is due *)

\* time passes up to the next timeout due; by IdleStep when none is pending
IdleAdvance ==
    /\ \A tm \in timers : tm.due > now
    /\ now' = IF timers = {} THEN now + IdleStep ELSE Min({tm.due : tm \in timers})
    /\ now' <= IdleMaxTime
    /\ Passed("advance")
    /\ UNCHANGED <<store, activityTimer, timers, onSessionExpired, expiredCalls,
                   lastActivityTime, inflight, reached, script>>

IdleNext ==
    \/ IdleAdvance
    \/ SetOnSessionExpired
    \/ SaveSession
    \/ UpdateActivity
    \/ Tick

IdleSpec == Init /\ [][IdleNext]_vars

---------------------------------------------------------------------------
(* The page under continuous light interaction: the clock moves on only after
   a document signal has arrived at the present instant, so consecutive
   signals are at most FineStep apart *)

KeepAliveAdvance ==
    /\ last.op = "handleActivity"
    /\ \E d \in {1, FineStep - (now % FineStep)} :
          /\ d = 1 => NearStep(now)
          /\ now + d <= KeepAliveMaxTime
          /\ now' = now + d
    /\ Passed("advance")
    /\ UNCHANGED <<store, activityTimer, timers, onSessionExpired, expiredCalls,
                   lastActivityTime, inflight, reached, script>>

KeepAliveNext ==
    \/ KeepAliveAdvance
    \/ SaveSession
    \/ HandleActivity
    \/ GetSession
    \/ Tick

KeepAliveSpec == Init /\ [][KeepAliveNext]_vars

---------------------------------------------------------------------------
(* The host application (LearnPathApp) around the manager: page loads, the
   warning poll, the session dialog, and API calls that fail *)

\* the body of the host's 30-second warning interval: [m, shown];
\* t1 and t2 are read by getTimeRemaining, t2 again by isLoggedIn;
\* a comparison with NaN is false and && does not evaluate isLoggedIn() then
warningPoll(m, t1, t2) ==
    LET r == getTimeRemaining(m, t1, t2) IN
    IF r.ret.type = "number" /\ r.ret.num <= 2 /\ r.ret.num > 0
    THEN LET li == isLoggedIn(r.m, t2) IN [m |-> li.m, shown |-> li.ret.val]
    ELSE [m |-> r.m, shown |-> FALSE]

WarningPoll ==
    /\ \E d \in Drifts :
          LET w == warningPoll(Cur, now, now + d) IN
          Commit(w.m) /\ Called("warningPoll", Undefined, Bool(w.shown), FALSE) /\ now' = now + d
    /\ UNCHANGED <<onSessionExpired, expiredCalls, lastActivityTime, inflight,
                   reached, script>>

\* a page load: the module is evaluated again (a new SessionManager without a
\* timer handle or callback, lastActivityTime = 0), the old page's timeouts
\* and requests are gone, the text in localStorage stays; then the host's
\* mount effect reads getSession() and registers its expiry handler
pageLoad(m, t) == getSession([m EXCEPT !.activityTimer = 0, !.timers = {}], t)

Reload ==
    /\ LET g == pageLoad(Cur, now) IN
          Commit(g.m) /\ Called("reload", Undefined, g.ret, FALSE)
    /\ onSessionExpired' = 1
    /\ lastActivityTime' = 0
    /\ inflight' = 0
    /\ UNCHANGED <<now, expiredCalls, reached, script>>

\* HTTP statuses of failed responses; 0 stands for no response at all
ErrorStatuses == {0, 401, 500}

\* the response interceptor's error handler: [m, navigates, threw].  On 401 it
\* calls require(), which exists only in a build that provides CommonJS
\* modules; where it does not, the call raises ReferenceError before
\* clearSession() and before the redirect
responseError(m, status, requireDefined) ==
    IF status # 401
    THEN [m |-> m, navigates |-> FALSE, threw |-> FALSE]
    ELSE IF requireDefined
         THEN [m |-> clearSession(m), navigates |-> TRUE, threw |-> FALSE]
         ELSE [m |-> m, navigates |-> FALSE, threw |-> TRUE]

\* a request in flight fails; after a 401 handled to the end the assignment to
\* window.location.href loads the page anew
ApiError ==
    /\ inflight > 0
    /\ \E status \in ErrorStatuses : \E requireDefined \in BOOLEAN :
          LET r == responseError(Cur, status, requireDefined)
              g == IF r.navigates THEN pageLoad(r.m, now).m ELSE r.m
          IN /\ Commit(g)
             /\ Called("apiError", Num(status), Undefined, r.threw)
             /\ onSessionExpired' = IF r.navigates THEN 1 ELSE onSessionExpired
             /\ lastActivityTime' = IF r.navigates THEN 0 ELSE lastActivityTime
             /\ inflight' = IF r.navigates THEN 0 ELSE inflight - 1
    /\ UNCHANGED <<now, expiredCalls, reached, script>>

HostNext ==
    \/ Advance
    \/ Reload
    \/ SaveSession
    \/ ExtendSession
    \/ ClearSession
    \/ Tick
    \/ WarningPoll
    \/ ApiRequest
    \/ ApiResponse
    \/ ApiError

HostSpec == Init /\ [][HostNext]_vars

---------------------------------------------------------------------------
(* Claims *)

\* the deadline of the record in the store
StoredExpiresAt == store.value.fields.expiresAt

\* C1: with a callback registered and a complete record in the store, a
\* scheduler tick that runs when now > expiresAt clears the record and invokes
\* the registered callback exactly once.
C1_TickNotifiesTimeout ==
    [][(/\ last'.op = "tick"
        /\ onSessionExpired # 0
        /\ StoredRecord(store)
        /\ now > StoredExpiresAt)
       => (/\ store' = NoItem
           /\ expiredCalls'[onSessionExpired] = expiredCalls[onSessionExpired] + 1)]_vars

\* C2: in the scenario saveSession at t=0 gives expiresAt = 900000,
\* updateActivity at t=500000 gives expiresAt = 1400000, getSession at
\* t=1450000 returns absent, and the expiry callback is invoked exactly once.
C2_ScenarioNotifiesOnce ==
    /\ (script = 3 /\ last.op = "saveSession") => StoredExpiresAt = 900000
    /\ (script = 4 /\ last.op = "updateActivity") => StoredExpiresAt = 1400000
    /\ (script = 5 /\ last.op = "getSession") => (last.ret = Null /\ store = NoItem)
    /\ (script = 5 /\ now >= ScenarioEnd) => expiredCalls[1] = 1

\* a complete record is stored and its deadline has not passed / has passed
StoredValid == StoredRecord(store) /\ now <= StoredExpiresAt
StoredExpired == StoredRecord(store) /\ now > StoredExpiresAt

\* C3: getSession() returns the stored record iff a record is present and
\* now <= expiresAt; past the deadline it returns absent and leaves the store
\* empty; isLoggedIn() is true exactly when getSession() would return a record,
\* and no other read reports a user or time remaining past the deadline.
C3_LazyExpiry ==
    [][/\ last'.op = "getSession" =>
            /\ (last'.ret # Null) <=> StoredValid
            /\ last'.ret # Null => (last'.ret = store.value /\ store' = store)
            /\ StoredExpired => (last'.ret = Null /\ store' = NoItem)
       /\ last'.op = "isLoggedIn" =>
            /\ last'.ret = Bool(StoredValid)
            /\ StoredExpired => store' = NoItem
       /\ (last'.op = "getCurrentUser" /\ last'.ret # Null) => StoredValid
       /\ (last'.op = "getTimeRemaining" /\ last'.ret # Num(0)) => StoredValid]_vars

\* getSession() has found a record past its deadline, returned absent and
\* left the store empty
C3_Witness ==
    /\ last.op = "getSession"
    /\ StoredRecord(last.pre)
    /\ now > last.pre.value.fields.expiresAt
    /\ last.ret = Null
    /\ store = NoItem

Unparseable(text) == text.kind \in {"empty", "garbage"}

\* what an operation built on getSession() gives when there is no session
NoSessionResult(l) ==
    IF l.op = "getSession" THEN l.ret = Null
    ELSE IF l.op = "isLoggedIn" THEN l.ret = Bool(FALSE)
    ELSE IF l.op = "getCurrentUser" THEN l.ret = Null
    ELSE IF l.op = "getTimeRemaining" THEN l.ret = Num(0)
    ELSE TRUE

Incomplete(text) == text.kind = "json" /\ ~IsRecord(text.value)

\* C5: when the value under the session key parses as JSON but is not a
\* complete record (no expiresAt, a bare number, only user), getSession()
\* returns absent without raising and purges the key, and isLoggedIn() is false.
C5_IncompletePurged ==
    [][(Incomplete(store) /\ last'.op \in {"getSession", "isLoggedIn"})
       => (/\ NoSessionResult(last')
           /\ ~last'.threw
           /\ store' = NoItem)]_vars

\* an updateActivity() call reaches the manager in this step
CallReaches ==
    \/ last'.op \in {"apiRequest", "apiResponse"}
    \/ last'.op = "handleActivity" /\ last'.ret = Bool(TRUE)

C7_ApiRenews ==
    [][(last'.op \in {"apiRequest", "apiResponse"} /\ StoredValid)
       => (/\ StoredRecord(store')
           /\ store'.value.fields.lastActivity = now'
           /\ store'.value.fields.expiresAt = now' + TIMEOUT_DURATION
           /\ store'.value.fields.user = store.value.fields.user
           /\ reached'.api = now)]_vars

\* a successful response has renewed a session that began earlier, less than
\* 30 seconds after the request did
C7_Witness ==
    /\ last.op = "apiResponse"
    /\ StoredRecord(last.pre)
    /\ StoredRecord(store)
    /\ reached.api # -1
    /\ now - reached.api < throttleDelay
    /\ store.value.fields.loginTime < now
    /\ store.value.fields.lastActivity = now
    /\ StoredExpiresAt = now + TIMEOUT_DURATION

\* C8: after every write of saveSession, updateActivity or extendSession the
\* stored value has expiresAt = lastActivity + TIMEOUT_DURATION.
C8_WriteInvariant ==
    [][(/\ last'.op \in {"saveSession", "updateActivity", "extendSession"}
        /\ store' # store
        /\ store' # NoItem)
       => (/\ HasField(store'.value, "lastActivity")
           /\ HasField(store'.value, "expiresAt")
           /\ store'.value.fields.expiresAt =
                 store'.value.fields.lastActivity + TIMEOUT_DURATION)]_vars

\* extendSession() has rewritten a record some time after login
C8_Witness ==
    /\ last.op = "extendSession"
    /\ StoredRecord(last.pre)
    /\ StoredRecord(store)
    /\ store # last.pre
    /\ store.value.fields.loginTime < store.value.fields.lastActivity
    /\ store.value.fields.lastActivity = now
    /\ StoredExpiresAt = now + TIMEOUT_DURATION

\* C9: every record getSession() returns as valid has
\* loginTime <= lastActivity <= expiresAt.
C9_Ordering ==
    (last.op = "getSession" /\ last.ret # Null)
    => (/\ last.ret.fields.loginTime <= last.ret.fields.lastActivity
        /\ last.ret.fields.lastActivity <= last.ret.fields.expiresAt)

\* getSession() has returned a record that was renewed after login
C9_Witness ==
    /\ last.op = "getSession"
    /\ last.ret # Null
    /\ 0 < last.ret.fields.loginTime
    /\ last.ret.fields.loginTime < last.ret.fields.lastActivity
    /\ last.ret.fields.lastActivity < now

\* C10: saveSession(user), from any prior state, leaves the store holding the
\* record {user, loginTime = now, lastActivity = now, expiresAt = now + 900000}
\* and exactly one expiration check pending, due 60000 ms from now.
C10_SaveReplaces ==
    [][last'.op = "saveSession"
       => (/\ store' = JsonText(SessionData(last'.arg.str, now, now, now + TIMEOUT_DURATION))
           /\ activityTimer' # 0
           /\ timers' = {[id |-> activityTimer', due |-> now + CHECK_INTERVAL]})]_vars

\* saveSession(user) has replaced the record of another user's earlier login
C10_Witness ==
    /\ last.op = "saveSession"
    /\ last.arg = Str("")
    /\ StoredValid
    /\ StoredRecord(last.pre)
    /\ last.pre.value.fields.user = "alice"
    /\ last.pre.value.fields.loginTime < now
    /\ store = JsonText(SessionData("", now, now, now + TIMEOUT_DURATION))
    /\ timers = {[id |-> activityTimer, due |-> now + CHECK_INTERVAL]}

\* C11: when a valid record exists, updateActivity() and extendSession() alike
\* set lastActivity = now and expiresAt = now + 900000, leave user and
\* loginTime unchanged, keep the session valid, and restart the scheduler so
\* that the one pending check is due 60000 ms from now.
C11_Renewal ==
    [][(last'.op \in {"updateActivity", "extendSession"} /\ StoredValid)
       => (/\ ~last'.threw
           /\ store' = JsonText(SessionData(store.value.fields.user,
                                            store.value.fields.loginTime,
                                            now', now' + TIMEOUT_DURATION))
           /\ isLoggedIn([store |-> store', activityTimer |-> activityTimer',
                          timers |-> timers'], now').ret = Bool(TRUE)
           /\ activityTimer' # 0
           /\ timers' = {[id |-> activityTimer', due |-> now' + CHECK_INTERVAL]})]_vars

\* updateActivity() has renewed a record whose check was overdue: the record
\* keeps its login time, the deadline and the next check are counted from now
C11_Witness ==
    /\ last.op = "updateActivity"
    /\ StoredRecord(last.pre)
    /\ last.pre.value.fields.lastActivity + CHECK_INTERVAL < now
    /\ store = JsonText(SessionData(last.pre.value.fields.user,
                                    last.pre.value.fields.loginTime,
                                    now, now + TIMEOUT_DURATION))
    /\ last.pre.value.fields.loginTime < last.pre.value.fields.lastActivity
    /\ timers = {[id |-> activityTimer, due |-> now + CHECK_INTERVAL]}

\* C12: updateActivity() with no session in the store is a no-op: the store
\* stays empty, no expiration check is started, the registered callback is not
\* invoked, nothing is raised and the manager's state is what it was, however
\* often it is called.
C12_UpdateWithoutSession ==
    [][(last'.op \in {"updateActivity", "extendSession"} /\ store = NoItem)
       => (/\ ~last'.threw
           /\ store' = NoItem
           /\ timers' = {}
           /\ UNCHANGED <<activityTimer, timers, onSessionExpired, expiredCalls>>)]_vars

\* updateActivity() has been called with a callback registered, after a login
\* was cleared, and has left the store empty and the scheduler idle
C12_Witness ==
    /\ last.op = "updateActivity"
    /\ last.pre = NoItem
    /\ store = NoItem
    /\ timers = {}
    /\ onSessionExpired # 0
    /\ expiredCalls = [cb \in Callbacks |-> 0]
    /\ now > 0

\* the manager's state after the step
CurAfter == [store |-> store', activityTimer |-> activityTimer', timers |-> timers']

\* C13: clearSession() raises nothing in any state; after it the store holds
\* no record, no expiration check is pending and isLoggedIn() is false; a
\* second call, or a call with no session, changes nothing.
C13_ClearIdempotent ==
    [][last'.op = "clearSession"
       => (/\ ~last'.threw
           /\ store' = NoItem
           /\ timers' = {}
           /\ activityTimer' = 0
           /\ isLoggedIn(CurAfter, now').ret = Bool(FALSE)
           /\ clearSession(CurAfter) = CurAfter
           /\ store = NoItem => (store' = store /\ timers' = timers))]_vars

\* clearSession() has removed a valid record whose check was pending for a
\* later instant
C13_Witness ==
    /\ last.op = "clearSession"
    /\ StoredRecord(last.pre)
    /\ now < last.pre.value.fields.lastActivity + CHECK_INTERVAL
    /\ last.pre.value.fields.loginTime < last.pre.value.fields.lastActivity
    /\ store = NoItem
    /\ timers = {}
    /\ activityTimer = 0

\* C14: the expiry callback is invoked on timeout-driven clears only.  A
\* clearSession() call invokes no callback, leaves isLoggedIn() false and no
\* check pending; while the store is empty and no check is pending, every step
\* but a new saveSession keeps it so and invokes no callback; a callback is
\* invoked only by a scheduler tick that clears a record past its deadline.
C14_NoCallbackOnExplicitClear ==
    [][/\ last'.op = "clearSession" =>
            /\ expiredCalls' = expiredCalls
            /\ store' = NoItem
            /\ timers' = {}
            /\ isLoggedIn(CurAfter, now').ret = Bool(FALSE)
       /\ (store = NoItem /\ timers = {} /\ last'.op # "saveSession") =>
            /\ expiredCalls' = expiredCalls
            /\ store' = NoItem
            /\ timers' = {}
       /\ expiredCalls' # expiredCalls =>
            /\ last'.op = "tick"
            /\ StoredRecord(store)
            /\ now' > StoredExpiresAt
            /\ store' = NoItem]_vars

\* with a callback registered, clearSession() has followed saveSession(u) in
\* the same millisecond; no callback has been invoked and no check is pending
C14_Witness ==
    /\ last.op = "clearSession"
    /\ onSessionExpired # 0
    /\ StoredRecord(last.pre)
    /\ last.pre.value.fields.loginTime = now
    /\ last.pre.value.fields.expiresAt = now + TIMEOUT_DURATION
    /\ store = NoItem
    /\ timers = {}
    /\ expiredCalls = [cb \in Callbacks |-> 0]

\* C15: getCurrentUser() returns the user field of the stored record whenever
\* a valid record exists, whatever payload saveSession was given (falsy ones
\* included), and absent only when there is no valid record: its result is
\* not absent iff isLoggedIn().
C15_CurrentUserOpaque ==
    [][last'.op = "getCurrentUser"
       => (/\ StoredValid => last'.ret = Str(store.value.fields.user)
           /\ ~StoredValid => last'.ret = Null
           /\ (last'.ret # Null) <=> (isLoggedIn(Cur, now).ret = Bool(TRUE)))]_vars

\* what getTimeRemaining() would return in state m at instant t
Remaining(m, t) == getTimeRemaining(m, t, t).ret.num

\* C16: for a valid record getTimeRemaining() is floor((expiresAt - now) / 60000)
\* whole minutes and never negative (0 if the deadline passes during the call);
\* it is 0 when there is no session; and no step other than a renewal
\* (saveSession, updateActivity, extendSession) makes its value larger.
C16_Freshness ==
    [][/\ (last'.op = "getTimeRemaining" /\ StoredValid) =>
            /\ now' <= StoredExpiresAt =>
                  last'.ret = Num((StoredExpiresAt - now') \div MS_PER_MINUTE)
            /\ now' > StoredExpiresAt => last'.ret = Num(0)
            /\ last'.ret.num >= 0
            /\ last'.ret.num <= TIMEOUT_DURATION \div MS_PER_MINUTE
       /\ (last'.op = "getTimeRemaining" /\ ~StoredValid) => last'.ret = Num(0)
       /\ last'.op \notin {"saveSession", "updateActivity", "extendSession"} =>
            Remaining(CurAfter, now') <= Remaining(Cur, now)]_vars

\* getTimeRemaining() has returned 11 for a valid record with 11 minutes and a
\* fraction of a minute left
C16_Witness ==
    /\ last.op = "getTimeRemaining"
    /\ StoredValid
    /\ (StoredExpiresAt - now) % MS_PER_MINUTE # 0
    /\ StoredExpiresAt - now > 11 * MS_PER_MINUTE
    /\ last.ret = Num(11)

\* the instants at which the pending checks of m are due
Dues(m) == {tm.due : tm \in m.timers}

\* C17: with a valid session, a second updateActivity() at the clock value of
\* the first leaves the stored record (lastActivity, expiresAt and the rest)
\* and the scheduler (one check pending, due 60000 ms from that clock value)
\* as the first call left them.
C17_RenewalIdempotent ==
    [][(last'.op \in {"updateActivity", "extendSession"} /\ StoredValid)
       => LET again == updateActivity(CurAfter, now', now') IN
          /\ ~again.threw
          /\ again.m.store = store'
          /\ Cardinality(again.m.timers) = 1
          /\ Dues(again.m) = {now' + CHECK_INTERVAL}
          /\ Dues(again.m) = Dues(CurAfter)]_vars

\* updateActivity() has been called a second time in the millisecond of a
\* renewal and has left the record as it found it, with one check pending
C17_Witness ==
    /\ last.op = "updateActivity"
    /\ StoredRecord(store)
    /\ last.pre = store
    /\ store.value.fields.loginTime < now
    /\ store.value.fields.lastActivity = now
    /\ StoredExpiresAt = now + TIMEOUT_DURATION
    /\ Cardinality(timers) = 1
    /\ Dues(Cur) = {now + CHECK_INTERVAL}

\* C18: a later setOnSessionExpired replaces the earlier registration: when a
\* scheduler tick clears a timed-out record, the most recently registered
\* callback is invoked once and no other callback is invoked.
C18_LatestCallbackOnce ==
    [][(/\ last'.op = "tick"
        /\ onSessionExpired # 0
        /\ StoredRecord(store)
        /\ store' = NoItem)
       => expiredCalls' = [expiredCalls EXCEPT ![onSessionExpired] = @ + 1]]_vars

\* C19: on a page without reads or logout, with timeouts firing when due, a
\* record written by saveSession/updateActivity is never in the store later
\* than 60000 ms after its expiresAt and a check due by then is pending while
\* it is stored; the tick that finds it expired removes it and leaves no check
\* pending, with or without a registered callback; without one, no callback
\* is invoked.
C19_ProactiveDetection ==
    [][/\ StoredRecord(store') =>
            /\ now' <= store'.value.fields.expiresAt + CHECK_INTERVAL
            /\ \E tm \in timers' :
                  /\ tm.id = activityTimer'
                  /\ tm.due <= store'.value.fields.expiresAt + CHECK_INTERVAL
       /\ (last'.op = "tick" /\ StoredRecord(store) /\ now' > StoredExpiresAt) =>
            /\ store' = NoItem
            /\ timers' = {}
            /\ onSessionExpired = 0 => expiredCalls' = expiredCalls]_vars

\* with no callback registered, the tick 60000 ms after the deadline has
\* removed a record that had been renewed once and then left alone
C19_Witness ==
    /\ last.op = "tick"
    /\ onSessionExpired = 0
    /\ StoredRecord(last.pre)
    /\ last.pre.value.fields.loginTime < last.pre.value.fields.lastActivity
    /\ now = last.pre.value.fields.expiresAt + CHECK_INTERVAL
    /\ store = NoItem
    /\ timers = {}

\* C20: in every reachable state at most one scheduler callback is pending,
\* and a pending one is the timeout whose handle the manager holds.
C20_SinglePendingCheck ==
    /\ Cardinality(timers) <= 1
    /\ \A tm \in timers : tm.id = activityTimer

\* updateActivity() has run one millisecond after saveSession, while the check
\* scheduled at login was still pending: that check is gone, one check is pending
C20_Witness ==
    /\ last.op = "updateActivity"
    /\ StoredRecord(store)
    /\ store.value.fields.loginTime + 1 = now
    /\ store.value.fields.lastActivity = now
    /\ Cardinality(timers) = 1
    /\ timers = {[id |-> activityTimer, due |-> now + CHECK_INTERVAL]}

\* C21: clearSession(), saveSession() and updateActivity() cancel the pending
\* check before proceeding.  After clearSession() none is pending; after a
\* write of saveSession/updateActivity/extendSession the only pending check is
\* the one that call scheduled, 60000 ms later; no pending check is due before
\* 60000 ms after the stored record's last write; and the check that fires is
\* the one whose handle the manager holds.
C21_NoStaleTick ==
    [][/\ last'.op = "clearSession" => timers' = {}
       /\ (last'.op \in {"saveSession", "updateActivity", "extendSession"}
           /\ store' # NoItem) =>
            timers' = {[id |-> activityTimer', due |-> now' + CHECK_INTERVAL]}
       /\ (last'.op \in {"updateActivity", "extendSession"} /\ store' = NoItem) =>
            timers' = {}
       /\ StoredRecord(store') =>
            \A tm \in timers' :
               tm.due >= store'.value.fields.lastActivity + CHECK_INTERVAL
       /\ last'.op = "tick" =>
            \E tm \in timers : tm.id = activityTimer /\ tm.due <= now]_vars

\* the check scheduled by a renewal made one millisecond after login has
\* fired, found the record valid and scheduled the next check
C21_Witness ==
    /\ last.op = "tick"
    /\ last.ret = Num(0)
    /\ StoredValid
    /\ store.value.fields.lastActivity = store.value.fields.loginTime + 1
    /\ now >= store.value.fields.lastActivity + CHECK_INTERVAL
    /\ timers = {[id |-> activityTimer, due |-> now + CHECK_INTERVAL]}

\* C22: when a scheduled check fires and the store holds no session (no key,
\* or an empty value), the scheduler stops: nothing is scheduled, no callback
\* is invoked, the store is left as it was.  When the record is present and
\* still valid (now <= expiresAt), the record is left unchanged, no callback
\* is invoked and exactly one new check is scheduled 60000 ms later.
C22_TickOutcomes ==
    [][/\ (last'.op = "tick" /\ store.kind \in {"missing", "empty"}) =>
            /\ store' = store
            /\ timers' = {}
            /\ expiredCalls' = expiredCalls
       /\ (last'.op = "tick" /\ StoredRecord(store) /\ now' <= StoredExpiresAt) =>
            /\ store' = store
            /\ expiredCalls' = expiredCalls
            /\ activityTimer' # 0
            /\ timers' = {[id |-> activityTimer', due |-> now' + CHECK_INTERVAL]}]_vars

\* with a callback registered, a check has fired on the deadline itself, found
\* the record still valid, left it alone and scheduled the next check
C22_Witness ==
    /\ last.op = "tick"
    /\ onSessionExpired # 0
    /\ StoredRecord(store)
    /\ last.pre = store
    /\ now = StoredExpiresAt
    /\ expiredCalls = [cb \in Callbacks |-> 0]
    /\ timers = {[id |-> activityTimer, due |-> now + CHECK_INTERVAL]}

\* the number of callback invocations so far
TotalExpiredCalls(calls) == calls[1] + calls[2]

\* C23: the expiry callback is invoked at most once per session expiry.  A
\* step invokes at most one callback, once; the step that invokes it leaves
\* the store empty and no check pending, the host callback's own clearSession()
\* included; and from there no callback is invoked, by a tick or by a read,
\* until saveSession opens the next session.
C23_NoDoubleExpiry ==
    [][/\ TotalExpiredCalls(expiredCalls') <= TotalExpiredCalls(expiredCalls) + 1
       /\ \A cb \in Callbacks : expiredCalls'[cb] >= expiredCalls[cb]
       /\ expiredCalls' # expiredCalls =>
            /\ store' = NoItem
            /\ timers' = {}
            /\ activityTimer' = 0
       /\ (store = NoItem /\ timers = {} /\ last'.op # "saveSession") =>
            /\ expiredCalls' = expiredCalls
            /\ store' = NoItem
            /\ timers' = {}]_vars

\* a tick has invoked the registered callback, for the first time in the run,
\* on a record that expired between the tick's two clock reads
C23_Witness ==
    /\ last.op = "tick"
    /\ last.ret = Num(onSessionExpired)
    /\ onSessionExpired # 0
    /\ TotalExpiredCalls(expiredCalls) = 1
    /\ StoredRecord(last.pre)
    /\ now = last.pre.value.fields.expiresAt + 1
    /\ store = NoItem
    /\ timers = {}

\* C24: a document interaction signal is forwarded as one updateActivity()
\* call iff now - lastActivityTime > 30000, and then lastActivityTime is set
\* to now (a valid record is renewed from now, an empty store stays empty);
\* otherwise the signal is dropped and lastActivityTime, the stored record and
\* the scheduler are left unchanged.
C24_ThrottleRule ==
    [][last'.op = "handleActivity"
       => (/\ last'.ret = Bool(now - lastActivityTime > throttleDelay)
           /\ ~last'.threw
           /\ now - lastActivityTime > throttleDelay =>
                 /\ lastActivityTime' = now
                 /\ StoredValid =>
                       /\ store' = JsonText(SessionData(store.value.fields.user,
                                                        store.value.fields.loginTime,
                                                        now', now' + TIMEOUT_DURATION))
                       /\ timers' = {[id |-> activityTimer', due |-> now' + CHECK_INTERVAL]}
                 /\ store = NoItem => (store' = NoItem /\ timers' = timers)
           /\ now - lastActivityTime <= throttleDelay =>
                 UNCHANGED <<lastActivityTime, store, activityTimer, timers>>)]_vars

\* a signal exactly 30000 ms after a forwarded one has been dropped, the
\* record and the check left as the forwarded one wrote them
C24_Witness ==
    /\ last.op = "handleActivity"
    /\ last.ret = Bool(FALSE)
    /\ lastActivityTime > 0
    /\ now - lastActivityTime = throttleDelay
    /\ StoredRecord(store)
    /\ last.pre = store
    /\ store.value.fields.loginTime < store.value.fields.lastActivity
    /\ store.value.fields.lastActivity = lastActivityTime
    /\ timers = {[id |-> activityTimer, due |-> lastActivityTime + CHECK_INTERVAL]}

\* C25: starting from a valid session, with document signals at most 30 s
\* apart and a clock that never goes back, the session never expires: a stored
\* record stays stored and within its deadline, every getSession() returns
\* it and no scheduler tick clears it, although signals are dropped.
C25_KeepAlive ==
    [][/\ StoredRecord(store) =>
            /\ StoredRecord(store')
            /\ now' <= store'.value.fields.expiresAt
       /\ (last'.op = "getSession" /\ StoredRecord(store)) =>
            (last'.ret = store.value /\ store' = store)
       /\ (last'.op = "tick" /\ StoredRecord(store)) =>
            (store' = store /\ expiredCalls' = expiredCalls)]_vars

\* more than 15 minutes after login, with signals dropped on the way,
\* getSession() has returned the record, renewed within the last minute
C25_Witness ==
    /\ last.op = "getSession"
    /\ last.ret # Null
    /\ StoredValid
    /\ now > last.ret.fields.loginTime + TIMEOUT_DURATION
    /\ now - last.ret.fields.lastActivity <= CHECK_INTERVAL
    /\ now - last.ret.fields.lastActivity > throttleDelay
    /\ lastActivityTime = last.ret.fields.lastActivity

\* C27: updateActivity() / extendSession() called when now > expiresAt never
\* extends or recreates the session: the expired record is purged, nothing is
\* written, no check is scheduled and none is left pending; and while the
\* store is empty no operation but saveSession puts a session in it.
C27_NoResurrection ==
    [][/\ (last'.op \in {"updateActivity", "extendSession"} /\ StoredExpired) =>
            /\ ~last'.threw
            /\ store' = NoItem
            /\ timers' = {}
            /\ activityTimer' = 0
            /\ isLoggedIn(CurAfter, now').ret = Bool(FALSE)
       /\ (store = NoItem /\ last'.op # "saveSession") => store' = NoItem]_vars

\* extendSession() has come one millisecond after the deadline of a record
\* whose check was still pending: the store is empty and no check is pending
C27_Witness ==
    /\ last.op = "extendSession"
    /\ StoredRecord(last.pre)
    /\ now = last.pre.value.fields.expiresAt + 1
    /\ store = NoItem
    /\ timers = {}
    /\ activityTimer = 0

\* C29: getSession(), isLoggedIn(), getCurrentUser() and getTimeRemaining()
\* called while a record is present with now <= expiresAt leave the stored
\* record, the pending check and its due time, the registered callback and
\* the throttle's lastActivityTime unchanged, and invoke no callback.
C29_ReadsArePure ==
    [][(/\ last'.op \in {"getSession", "isLoggedIn", "getCurrentUser", "getTimeRemaining"}
        /\ StoredValid)
       => (/\ ~last'.threw
           /\ UNCHANGED <<store, activityTimer, timers, onSessionExpired,
                          expiredCalls, lastActivityTime>>)]_vars

\* getTimeRemaining() has read a record three minutes after its last renewal:
\* the record is as it was and the check scheduled by that renewal is pending
C29_Witness ==
    /\ last.op = "getTimeRemaining"
    /\ last.ret = Num(12)
    /\ StoredValid
    /\ last.pre = store
    /\ store.value.fields.loginTime < store.value.fields.lastActivity
    /\ StoredExpiresAt = store.value.fields.lastActivity + TIMEOUT_DURATION
    /\ timers = {[id |-> activityTimer,
                  due |-> store.value.fields.lastActivity + CHECK_INTERVAL]}
    /\ onSessionExpired # 0

\* C26: on each poll of the host the session warning is shown whenever the
\* user is logged in and getTimeRemaining() is at or below 2 minutes, the final
\* minute before the deadline included (getTimeRemaining() is 0 and the
\* session still valid), and hidden otherwise.
C26_WarningAtThreshold ==
    [][last'.op = "warningPoll"
       => last'.ret = Bool(/\ StoredRecord(store)
                           /\ now' <= StoredExpiresAt
                           /\ (StoredExpiresAt - now') \div MS_PER_MINUTE <= 2)]_vars

\* C28: in every reachable state in which the store holds a session record an
\* expiration check is pending, also after a page load that re-creates the
\* manager while the stored record survives.
C28_SchedulerCoverage ==
    StoredRecord(store) =>
        \E tm \in timers : tm.id = activityTimer

\* C30: a failed API response never renews the session, and a response with
\* status 401 clears it (store empty, no check pending) without invoking the
\* expiry callback.
C30_ErrorResponses ==
    [][last'.op = "apiError"
       => (/\ store' \in {store, NoItem}
           /\ expiredCalls' = expiredCalls
           /\ last'.arg = Num(401) => (store' = NoItem /\ timers' = {}))]_vars

====
